---- MODULE Spec2Model ----
(***************************************************************************)
(* Model of libtzfile (src/src/lib.rs): Tzfile::read, Tzfile::parse_header *)
(* and Tzfile::parse, the decoder of TZif version 1 files.                  *)
(*                                                                         *)
(* A buffer is a sequence of bytes (0..255).  A usize is modelled at its   *)
(* 64-bit width as four 16-bit limbs, least significant first, so that the *)
(* sign extension of `as usize` and the wrapping or panicking of the       *)
(* offset arithmetic are computed and not assumed.  A &str is the byte     *)
(* sequence it borrows.  A panic is an outcome of its own: it is neither   *)
(* an Ok nor an Err value.                                                 *)
(***************************************************************************)
EXTENDS Integers, Sequences, FiniteSets, TLC

VARIABLES pc, buffer, header, tz

vars == <<pc, buffer, header, tz>>

----------------------------------------------------------------------------
(* Bounds of the explored inputs *)

MaxTime == 2
MaxType == 2
MaxLeap == 1
MaxChar == 8
MaxBody == 30

----------------------------------------------------------------------------
(* Program constants *)

\* static MAGIC: u32 = 0x545A6966, kept as its two 16-bit halves
MAGIC == [hi |-> 21594, lo |-> 26982]

V1_HEADER_END == 44

----------------------------------------------------------------------------
(* usize arithmetic, 64 bits wide *)

Limb == 65536

USize(n) == <<n % Limb, (n \div Limb) % Limb, 0, 0>>

\* `x as usize` for an i32 x: sign extension to 64 bits
I32AsUsize(i) ==
    IF i >= 0 THEN USize(i)
    ELSE <<i % Limb, (i \div Limb) % Limb, Limb - 1, Limb - 1>>

\* a * k for a small constant k; ovf tells whether the true product needs more than 64 bits
UMul(a, k) ==
    LET p1 == a[1] * k
        p2 == a[2] * k + (p1 \div Limb)
        p3 == a[3] * k + (p2 \div Limb)
        p4 == a[4] * k + (p3 \div Limb)
    IN  [val |-> <<p1 % Limb, p2 % Limb, p3 % Limb, p4 % Limb>>,
         ovf |-> (p4 \div Limb) > 0]

UAdd(a, b) ==
    LET s1 == a[1] + b[1]
        s2 == a[2] + b[2] + (s1 \div Limb)
        s3 == a[3] + b[3] + (s2 \div Limb)
        s4 == a[4] + b[4] + (s3 \div Limb)
    IN  [val |-> <<s1 % Limb, s2 % Limb, s3 % Limb, s4 % Limb>>,
         ovf |-> (s4 \div Limb) > 0]

ULe(a, b) ==
    IF a[4] # b[4] THEN a[4] < b[4]
    ELSE IF a[3] # b[3] THEN a[3] < b[3]
    ELSE IF a[2] # b[2] THEN a[2] < b[2]
    ELSE a[1] <= b[1]

\* the value of a usize that is known to be at most a buffer length
UNat(a) == a[1] + a[2] * Limb

----------------------------------------------------------------------------
(* byteorder and slices *)

\* slip: the four bytes taken least significant first
ReadI32_LittleEndian(b) ==
    (IF b[4] >= 128 THEN b[4] - 256 ELSE b[4]) * 16777216
        + b[3] * 65536 + b[2] * 256 + b[1]

\* BE::read_i32
ReadI32(b) ==
    (IF b[1] >= 128 THEN b[1] - 256 ELSE b[1]) * 16777216
        + b[2] * 65536 + b[3] * 256 + b[4]

\* BE::read_u32, as two 16-bit halves
ReadU32(b) == [hi |-> b[1] * 256 + b[2], lo |-> b[3] * 256 + b[4]]

\* buf[from..to] with from, to of type usize: in bounds iff from <= to <= len
SliceOk(buf, from, to) == ULe(from, to) /\ ULe(to, USize(Len(buf)))

Slice(buf, from, to) == SubSeq(buf, UNat(from) + 1, UNat(to))

\* slice.chunks_exact(n): the whole chunks, a remainder is left out
ChunksExact(s, n) == [k \in 1..(Len(s) \div n) |-> SubSeq(s, (k - 1) * n + 1, k * n)]

----------------------------------------------------------------------------
(* Outcomes *)

None == [kind |-> "none"]

Panic(why) == [kind |-> "panic", why |-> why]

Err(e) == [kind |-> "Err", err |-> e]

Ok(v) == [kind |-> "Ok", val |-> v]

----------------------------------------------------------------------------
(* Tzfile::parse_header *)

\* slip: the length of the whole header is required before the magic is compared
parse_header_LengthFirst(buf) ==
    IF Len(buf) < V1_HEADER_END THEN Panic("slice")
    ELSE LET magic == ReadU32(SubSeq(buf, 1, 4)) IN
        IF magic # MAGIC THEN Err("InvalidMagic")
        ELSE Ok([magic |-> magic,
                 version |-> buf[5],
                 tzh_ttisgmtcnt |-> I32AsUsize(ReadI32(SubSeq(buf, 21, 24))),
                 tzh_ttisstdcnt |-> I32AsUsize(ReadI32(SubSeq(buf, 25, 28))),
                 tzh_leapcnt |-> I32AsUsize(ReadI32(SubSeq(buf, 29, 32))),
                 tzh_timecnt |-> I32AsUsize(ReadI32(SubSeq(buf, 33, 36))),
                 tzh_typecnt |-> I32AsUsize(ReadI32(SubSeq(buf, 37, 40))),
                 tzh_charcnt |-> I32AsUsize(ReadI32(SubSeq(buf, 41, 44)))])

parse_header(buf) ==
    IF Len(buf) < 4 THEN Panic("slice")
    ELSE LET magic == ReadU32(SubSeq(buf, 1, 4)) IN
        IF magic # MAGIC THEN Err("InvalidMagic")
        ELSE IF Len(buf) < 5 THEN Panic("index")
        ELSE IF Len(buf) < 24 THEN Panic("slice")
        ELSE IF Len(buf) < 28 THEN Panic("slice")
        ELSE IF Len(buf) < 32 THEN Panic("slice")
        ELSE IF Len(buf) < 36 THEN Panic("slice")
        ELSE IF Len(buf) < 40 THEN Panic("slice")
        ELSE IF Len(buf) < 44 THEN Panic("slice")
        ELSE Ok([magic |-> magic,
                 version |-> buf[5],
                 tzh_ttisgmtcnt |-> I32AsUsize(ReadI32(SubSeq(buf, 21, 24))),
                 tzh_ttisstdcnt |-> I32AsUsize(ReadI32(SubSeq(buf, 25, 28))),
                 tzh_leapcnt |-> I32AsUsize(ReadI32(SubSeq(buf, 29, 32))),
                 tzh_timecnt |-> I32AsUsize(ReadI32(SubSeq(buf, 33, 36))),
                 tzh_typecnt |-> I32AsUsize(ReadI32(SubSeq(buf, 37, 40))),
                 tzh_charcnt |-> I32AsUsize(ReadI32(SubSeq(buf, 41, 44)))])

----------------------------------------------------------------------------
(* std::str::from_utf8 and str::split *)

Cont(b) == b \in 128..191

RECURSIVE Utf8From(_, _)
Utf8From(s, i) ==
    IF i > Len(s) THEN TRUE
    ELSE LET b == s[i]
             more == Len(s) - i
         IN IF b < 128 THEN Utf8From(s, i + 1)
            ELSE IF b \in 194..223
                 THEN more >= 1 /\ Cont(s[i + 1]) /\ Utf8From(s, i + 2)
            ELSE IF b \in 224..239
                 THEN /\ more >= 2
                      /\ s[i + 1] \in (IF b = 224 THEN 160..191
                                       ELSE IF b = 237 THEN 128..159 ELSE 128..191)
                      /\ Cont(s[i + 2])
                      /\ Utf8From(s, i + 3)
            ELSE IF b \in 240..244
                 THEN /\ more >= 3
                      /\ s[i + 1] \in (IF b = 240 THEN 144..191
                                       ELSE IF b = 244 THEN 128..143 ELSE 128..191)
                      /\ Cont(s[i + 2])
                      /\ Cont(s[i + 3])
                      /\ Utf8From(s, i + 4)
            ELSE FALSE

from_utf8(s) == IF Utf8From(s, 1) THEN Ok(s) ELSE Err("Utf8Error")

\* str.split("\u{0}").collect(): one piece more than there are separators
RECURSIVE split(_)
split(s) ==
    IF \A i \in 1..Len(s) : s[i] # 0 THEN <<s>>
    ELSE LET k == CHOOSE i \in 1..Len(s) : s[i] = 0 /\ \A j \in 1..(i - 1) : s[j] # 0
         IN <<SubSeq(s, 1, k - 1)>> \o split(SubSeq(s, k + 1, Len(s)))

\* Vec::pop
pop(v) == IF Len(v) = 0 THEN None ELSE Ok(SubSeq(v, 1, Len(v) - 1))

----------------------------------------------------------------------------
(* Tzfile::parse *)

\* Utc.timestamp(secs, 0)
Timestamp(secs) == [secs |-> secs, nsecs |-> 0]

\* slip: the instants come out in ascending order instead of stored order
TimecntData_Sorted(s) ==
    LET ch == ChunksExact(s, 4)
        v == [k \in 1..Len(ch) |-> ReadI32(ch[k])]
        rank(k) == Cardinality({j \in 1..Len(ch) : v[j] < v[k] \/ (v[j] = v[k] /\ j < k)})
    IN  [r \in 1..Len(ch) |-> Timestamp(v[CHOOSE k \in 1..Len(ch) : rank(k) = r - 1])]

\* .chunks_exact(4).map(|tt| Utc.timestamp(BE::read_i32(tt).into(), 0)).collect()
TimecntData(s) ==
    LET ch == ChunksExact(s, 4)
    IN  [k \in 1..Len(ch) |-> Timestamp(ReadI32(ch[k]))]

\* slip: the raw abbreviation index is stored undivided
Ttinfo_RawIndex(tti) ==
    [tt_gmtoff |-> ReadI32(SubSeq(tti, 1, 4)),
     tt_isdst |-> tti[5],
     tt_abbrind |-> tti[6]]

\* the closure building one Ttinfo from a 6-byte chunk
Ttinfo(tti) ==
    [tt_gmtoff |-> ReadI32(SubSeq(tti, 1, 4)),
     tt_isdst |-> tti[5],
     tt_abbrind |-> tti[6] \div 4]

\* .chunks_exact(6).map(...).collect()
TypecntData(s) ==
    LET ch == ChunksExact(s, 6)
    IN  [k \in 1..Len(ch) |-> Ttinfo(ch[k])]

\* the field lengths and indexes of lines 110-117, with the overflow of each step
Offsets(h) ==
    LET timecnt_len == UMul(h.tzh_timecnt, 5)
        typecnt_len == UMul(h.tzh_typecnt, 6)
        leapcnt_len == UMul(h.tzh_leapcnt, 4)
        timecnt_end == UAdd(USize(V1_HEADER_END), timecnt_len.val)
        typecnt_end == UAdd(timecnt_end.val, typecnt_len.val)
        leapcnt_end == UAdd(typecnt_end.val, leapcnt_len.val)
        charcnt_end == UAdd(leapcnt_end.val, h.tzh_charcnt)
    IN  [tzh_timecnt_end |-> timecnt_end.val,
         tzh_typecnt_end |-> typecnt_end.val,
         tzh_leapcnt_end |-> leapcnt_end.val,
         tzh_charcnt_end |-> charcnt_end.val,
         ovf |-> \/ timecnt_len.ovf \/ typecnt_len.ovf \/ leapcnt_len.ovf
                 \/ timecnt_end.ovf \/ typecnt_end.ovf
                 \/ leapcnt_end.ovf \/ charcnt_end.ovf]

\* V1_HEADER_END + self.tzh_timecnt * 4 (lines 121 and 127)
TimesEnd(h) ==
    LET m == UMul(h.tzh_timecnt, 4)
        a == UAdd(USize(V1_HEADER_END), m.val)
    IN  [val |-> a.val, ovf |-> m.ovf \/ a.ovf]

\* oc: the build checks arithmetic overflow (debug profile) or wraps (release profile)
parse(h, buf, oc) ==
    LET o == Offsets(h)
        te == TimesEnd(h)
        hdr_end == USize(V1_HEADER_END)
    IN  IF oc /\ o.ovf THEN Panic("overflow")
        ELSE IF oc /\ te.ovf THEN Panic("overflow")
        ELSE IF ~SliceOk(buf, hdr_end, te.val) THEN Panic("slice")
        ELSE IF ~SliceOk(buf, te.val, o.tzh_timecnt_end) THEN Panic("slice")
        ELSE IF ~SliceOk(buf, o.tzh_timecnt_end, o.tzh_typecnt_end) THEN Panic("slice")
        ELSE IF ~SliceOk(buf, o.tzh_leapcnt_end, o.tzh_charcnt_end) THEN Panic("slice")
        ELSE LET text == from_utf8(Slice(buf, o.tzh_leapcnt_end, o.tzh_charcnt_end)) IN
            IF text.kind # "Ok" THEN Panic("unwrap")
            ELSE LET popped == pop(split(text.val)) IN
                IF popped.kind # "Ok" THEN Panic("unwrap")
                ELSE [kind |-> "Tz",
                      tzh_timecnt_data |-> TimecntData(Slice(buf, hdr_end, te.val)),
                      tzh_timecnt_indices |-> Slice(buf, te.val, o.tzh_timecnt_end),
                      tzh_typecnt |->
                          TypecntData(Slice(buf, o.tzh_timecnt_end, o.tzh_typecnt_end)),
                      tz_abbr |-> popped.val]

----------------------------------------------------------------------------
(* Files: the byte sequences Tzfile::read may return *)

GoodMagic == <<84, 90, 105, 102>>

Magics == {GoodMagic, <<84, 90, 105, 103>>, <<102, 105, 90, 84>>,
           <<212, 90, 105, 102>>, <<0, 0, 0, 0>>}

\* four bytes, big endian, of a 32-bit two's complement value
I32Bytes(i) ==
    <<(i \div 16777216) % 256, (i \div 65536) % 256, (i \div 256) % 256, i % 256>>

\* three file bodies; what a byte means depends on the counts of the header in front
Pool ==
    << \* 2 times (5, -21600), 2 indices, 2 types, "MDT\0MST\0"
       <<0, 0, 0, 5, 255, 255, 171, 160, 7, 0,
         255, 255, 171, 160, 1, 0, 0, 0, 14, 16, 0, 4,
         77, 68, 84, 0, 77, 83, 84, 0>>,
       \* 2 types, then short abbreviations
       <<0, 0, 0, 0, 0, 0, 128, 0, 0, 1, 1, 3,
         65, 66, 0, 67, 68, 0, 69, 0, 70, 71, 72, 73, 74, 0, 75, 0, 76, 0>>,
       \* multi-byte, invalid and unterminated text
       <<195, 169, 0, 255, 0, 8, 0, 0, 226, 130, 172, 0, 65, 0,
         240, 159, 152, 128, 0, 237, 160, 128, 0, 66, 67, 68, 69, 70, 71, 72>> >>

Versions == <<50, 0, 255>>

IsGmt == <<3, 7, -3>>

IsStd == <<3, 9, -2147483647>>

MkHeader(magic, p, leap, time, type, char) ==
    magic \o <<Versions[p]>> \o [i \in 1..15 |-> 170]
        \o I32Bytes(IsGmt[p]) \o I32Bytes(IsStd[p])
        \o I32Bytes(leap) \o I32Bytes(time) \o I32Bytes(type) \o I32Bytes(char)

Prefix(s, n) == SubSeq(s, 1, IF n < Len(s) THEN n ELSE Len(s))

\* files with a good header: any counts in front of any body length
WholeFiles ==
    { MkHeader(GoodMagic, p, leap, time, type, char) \o Prefix(Pool[p], n) :
        p \in 1..3, leap \in -1..MaxLeap, time \in -1..MaxTime,
        type \in -1..MaxType, char \in -1..MaxChar, n \in 0..MaxBody }

\* files of any length, also shorter than a header, with any magic
ShortFiles ==
    { Prefix(MkHeader(m, p, 0, 1, 1, 4) \o Pool[p], n) :
        m \in Magics, p \in 1..3, n \in 0..(V1_HEADER_END + 1) }

Files == WholeFiles \cup ShortFiles

----------------------------------------------------------------------------
(* The program: read a file, parse its header, parse its content *)

Init ==
    /\ pc = "start"
    /\ buffer = <<>>
    /\ header = None
    /\ tz = None

\* let buffer = Tzfile::read(name).unwrap()
Read ==
    /\ pc = "start"
    /\ \E f \in Files : buffer' = f
    /\ pc' = "read"
    /\ UNCHANGED <<header, tz>>

\* let header = Tzfile::parse_header(&buffer)
ParseHeader ==
    /\ pc = "read"
    /\ header' = parse_header(buffer)
    /\ pc' = "header"
    /\ UNCHANGED <<buffer, tz>>

\* header.unwrap().parse(&buffer)
Parse ==
    /\ pc = "header"
    /\ header.kind = "Ok"
    /\ \E oc \in BOOLEAN : tz' = parse(header.val, buffer, oc)
    /\ pc' = "done"
    /\ UNCHANGED <<buffer, header>>

Next == Read \/ ParseHeader \/ Parse

Spec == Init /\ [][Next]_vars

----------------------------------------------------------------------------
(* What the file says, read off the buffer by byte offset (offsets from 0) *)

ByteAt(off) == buffer[off + 1]

\* the big-endian two's complement 32-bit value stored at off
StoredI32(off) ==
    (((ByteAt(off) + 128) % 256) - 128) * 16777216
        + ByteAt(off + 1) * 65536 + ByteAt(off + 2) * 256 + ByteAt(off + 3)

HasHeader == Len(buffer) >= 44

StartsWithMagic ==
    /\ Len(buffer) >= 4
    /\ ByteAt(0) = 84 /\ ByteAt(1) = 90 /\ ByteAt(2) = 105 /\ ByteAt(3) = 102

isGmtCount == StoredI32(20)
isStdCount == StoredI32(24)
leapCount == StoredI32(28)
timeCount == StoredI32(32)
typeCount == StoredI32(36)
charCount == StoredI32(40)

CountsNonNegative ==
    leapCount >= 0 /\ timeCount >= 0 /\ typeCount >= 0 /\ charCount >= 0

\* the layout of the file format: leap records are 8 bytes long
TypesStart == 44 + 5 * timeCount
CharsStart == 44 + 5 * timeCount + 6 * typeCount + 8 * leapCount
CharsEnd == CharsStart + charCount

Bytes(from, to) == SubSeq(buffer, from + 1, to)

HeaderParsed == pc \in {"header", "done"}

Parsed == pc = "done"

\* the pieces, each followed by the null byte
RECURSIVE Terminated(_)
Terminated(v) ==
    IF Len(v) = 0 THEN <<>> ELSE Head(v) \o <<0>> \o Terminated(Tail(v))

NoNul(s) == \A i \in 1..Len(s) : s[i] # 0

----------------------------------------------------------------------------
(* C3 *)

----------------------------------------------------------------------------
(* C4 *)

\* C4: for every buffer shorter than 44 bytes parse_header fails with a
\* truncated-header error value, never a header and never another error kind.
C4_TruncatedHeader ==
    (HeaderParsed /\ ~HasHeader)
        => (header.kind = "Err" /\ header.err = "TruncatedHeader")

----------------------------------------------------------------------------
(* C9 *)

\* the integer n >= 0 as a usize
IsValue(u, n) == n >= 0 /\ u = <<n % 65536, n \div 65536, 0, 0>>

\* the usize whose value is n + 2^64, for a negative 32-bit n
IsValuePlus2p64(u, n) ==
    /\ n < 0
    /\ u[3] = 65535 /\ u[4] = 65535
    /\ u[2] >= 32768
    /\ (u[2] - 65536) * 65536 + u[1] = n

Reinterpreted(u, n) == IF n >= 0 THEN IsValue(u, n) ELSE IsValuePlus2p64(u, n)

\* C9 as stated: with at least 44 bytes and the magic bytes parse_header
\* succeeds, returns the version byte and the six counts, and each count is a
\* non-negative integer equal to the stored value.
C9_CountsEqualStored ==
    (HeaderParsed /\ HasHeader /\ StartsWithMagic) =>
        /\ header.kind = "Ok"
        /\ header.val.version = ByteAt(4)
        /\ IsValue(header.val.tzh_ttisgmtcnt, isGmtCount)
        /\ IsValue(header.val.tzh_ttisstdcnt, isStdCount)
        /\ IsValue(header.val.tzh_leapcnt, leapCount)
        /\ IsValue(header.val.tzh_timecnt, timeCount)
        /\ IsValue(header.val.tzh_typecnt, typeCount)
        /\ IsValue(header.val.tzh_charcnt, charCount)

\* C9 amended: with at least 44 bytes and the magic bytes parse_header
\* succeeds whatever the version, the counts and the rest of the buffer are,
\* returns version = byte 4 and the six counts read big-endian at 0x14..0x28;
\* a count equals the stored value when that is non-negative and the stored
\* value plus 2^64 (its sign-extended 64-bit reinterpretation) when negative.
C9_HeaderFields ==
    (HeaderParsed /\ HasHeader /\ StartsWithMagic) =>
        /\ header.kind = "Ok"
        /\ header.val.version = ByteAt(4)
        /\ Reinterpreted(header.val.tzh_ttisgmtcnt, isGmtCount)
        /\ Reinterpreted(header.val.tzh_ttisstdcnt, isStdCount)
        /\ Reinterpreted(header.val.tzh_leapcnt, leapCount)
        /\ Reinterpreted(header.val.tzh_timecnt, timeCount)
        /\ Reinterpreted(header.val.tzh_typecnt, typeCount)
        /\ Reinterpreted(header.val.tzh_charcnt, charCount)

\* a header with a version other than 0, a negative count, counts that differ
\* from each other, and a body too short for them
C9_Witness ==
    /\ HeaderParsed /\ HasHeader /\ StartsWithMagic
    /\ header.kind = "Ok"
    /\ header.val.version = 255
    /\ isGmtCount = -3 /\ leapCount = 1 /\ timeCount = 2 /\ typeCount = 0
    /\ charCount = 5
    /\ Len(buffer) = 44
    /\ header.val.tzh_ttisgmtcnt = <<65533, 65535, 65535, 65535>>
    /\ header.val.tzh_timecnt = <<2, 0, 0, 0>>

----------------------------------------------------------------------------
(* C1 *)

\* C1: parse places the sections back to back after the 44-byte header, with
\* lengths timeCount*4, timeCount, typeCount*6, leapCount*8 and charCount, so
\* the abbreviations it returns are decoded from exactly
\* buffer[44 + 5*timeCount + 6*typeCount + 8*leapCount .. + charCount],
\* also when leapCount > 0.
C1_SectionLayout ==
    (Parsed /\ tz.kind = "Tz" /\ CountsNonNegative /\ Len(buffer) >= CharsEnd)
        => /\ NoNul(Bytes(CharsStart + Len(Terminated(tz.tz_abbr)), CharsEnd))
           /\ Terminated(tz.tz_abbr)
                = Bytes(CharsStart, CharsStart + Len(Terminated(tz.tz_abbr)))

----------------------------------------------------------------------------
(* C2 *)

\* C2: whenever the buffer is shorter than the end of the last section the
\* header counts give, parse ends in a truncated-data error value handed to
\* the caller; it returns no Tz and does not abort without an error value.
C2_TruncatedBody ==
    (Parsed /\ CountsNonNegative /\ Len(buffer) < CharsEnd)
        => (tz.kind = "Err" /\ tz.err = "TruncatedBody")

----------------------------------------------------------------------------
(* C5 *)

\* C5: when the abbreviation bytes the header counts select are not valid
\* UTF-8, parse fails with an invalid-encoding error value and returns no Tz.
C5_InvalidEncoding ==
    (/\ Parsed /\ CountsNonNegative /\ Len(buffer) >= CharsEnd
     /\ ~Utf8From(Bytes(CharsStart, CharsEnd), 1))
        => (tz.kind = "Err" /\ tz.err = "InvalidEncoding")

----------------------------------------------------------------------------
(* C6 *)

\* C6: for a valid UTF-8 abbreviation section, tz_abbr is the section split on
\* the null byte, in stored order, with only the final element removed, and
\* the removed element is the empty string: the returned strings, each
\* followed by its null byte, are the whole section.
C6_OnlyEmptyDropped ==
    (Parsed /\ tz.kind = "Tz" /\ CountsNonNegative /\ leapCount = 0)
        => /\ \A k \in 1..Len(tz.tz_abbr) : NoNul(tz.tz_abbr[k])
           /\ Terminated(tz.tz_abbr) = Bytes(CharsStart, CharsEnd)

----------------------------------------------------------------------------
(* C7 and C8 *)

\* the buffer holds every section the header declares
LongEnough == HasHeader /\ CountsNonNegative /\ Len(buffer) >= CharsEnd

\* a long enough buffer is decoded unless its text is refused
Returns == tz.kind = "Tz" \/ tz = Panic("unwrap")

----------------------------------------------------------------------------
(* C10 *)

\* an abbreviation starts at offset r of the character section
StartsAt(r) ==
    /\ r < charCount
    /\ r = 0 \/ ByteAt(CharsStart + r - 1) = 0
    /\ \E e \in r..(charCount - 1) : ByteAt(CharsStart + e) = 0

\* the abbreviation that starts at offset r, up to its null byte
StringAt(r) ==
    LET e == CHOOSE e \in r..(charCount - 1) :
                 /\ ByteAt(CharsStart + e) = 0
                 /\ NoNul(Bytes(CharsStart + r, CharsStart + e))
    IN  Bytes(CharsStart + r, CharsStart + e)

\* C10: in every result, a type record whose raw stored abbreviation index is
\* the offset at which an abbreviation starts gets a tt_abbrind below the
\* length of tz_abbr, and tz_abbr[tt_abbrind] is that abbreviation.
C10_AbbrindIndexesAbbr ==
    (Parsed /\ tz.kind = "Tz" /\ CountsNonNegative /\ leapCount = 0) =>
        \A k \in 0..(typeCount - 1) :
            LET raw == ByteAt(TypesStart + 6 * k + 5)
                ind == tz.tzh_typecnt[k + 1].tt_abbrind
            IN  StartsAt(raw) =>
                    /\ ind < Len(tz.tz_abbr)
                    /\ tz.tz_abbr[ind + 1] = StringAt(raw)

====
